---- MODULE Spec2Model ----
(***************************************************************************)
(* Model of pymedphys_deliverydata/dicom/to_dicom.py: the conversion of a  *)
(* delivery data record into the beams of an RT plan built from a          *)
(* template.                                                               *)
(*                                                                         *)
(* Numbers.  Every float of the program is held as a fixed-point integer   *)
(* in tenths (angles in tenths of a degree, metersets in tenths of a MU,   *)
(* jaw and leaf positions in tenths).  Where the program negates a float   *)
(* and prints it, the sign of zero shows ("-0.0"), so those floats are     *)
(* held in sign-magnitude form [neg, mag].  A gantry tolerance is d/2-0.1  *)
(* and is held in twentieths of a degree, so that the halving is exact.    *)
(***************************************************************************)
EXTENDS Integers, Sequences, FiniteSets, TLC

VARIABLES
    \* coordinate_convert_delivery_data and the functions under it
    given,                \* the DeliveryData as the caller built it
    delivery_data,        \* the same object, as the calls leave it
    conversions,       \* the results returned so far, one per call
    jaw_twice,            \* result of jaw_dd2dcm applied to a converted jaw
    \* gantry_tol_from_gantry_angles
    gantry_angles,        \* the template gantry angles handed in
    gantry_tol_result,    \* what the call returned or raised
    \* determine_fraction_group_number
    resolve_input,        \* its four arguments
    resolve_result,       \* what the call returned or raised
    \* delivery_data_to_dicom
    heap,                 \* the DICOM datasets alive, by object identity
    call,                 \* the arguments of delivery_data_to_dicom
    pc,                   \* position in delivery_data_to_dicom
    fraction_group_number,           \* the local of that name
    single_fraction_group_template,  \* reference into heap
    all_masked_delivery_data,
    fraction_group_index,
    single_beam_dicoms,   \* references into heap
    single_beam_calls,    \* direct calls of delivery_data_to_dicom_single_beam
    outcome               \* what delivery_data_to_dicom returned or raised

vars == << given, delivery_data, conversions, jaw_twice, gantry_angles,
           gantry_tol_result, resolve_input, resolve_result, heap, call, pc,
           fraction_group_number, single_fraction_group_template,
           all_masked_delivery_data, fraction_group_index,
           single_beam_dicoms, single_beam_calls, outcome >>

convertVars == << given, delivery_data, conversions, jaw_twice >>
tolVars == << gantry_angles, gantry_tol_result >>
resolveVars == << resolve_input, resolve_result >>
dicomVars == << heap, call, pc, fraction_group_number,
                single_fraction_group_template, all_masked_delivery_data,
                fraction_group_index, single_beam_dicoms, single_beam_calls,
                outcome >>

\* Python values of more than one type are tagged records
None == [kind |-> "None"]

----------------------------------------------------------------------------
(* Bounds *)

MaxLen == 3        \* samples in a delivery data record given to the converter
MaxAngles == 3     \* gantry angles given to gantry_tol_from_gantry_angles
MaxSamples == 3    \* samples in a delivery stream given to the resolver
MaxGroups == 2     \* fraction groups in a template
MaxCalls == 3      \* direct calls of delivery_data_to_dicom_single_beam

----------------------------------------------------------------------------
(* Python / numpy values *)

Returned(v) == [kind |-> "return", value |-> v]
Raised(e) == [kind |-> "raise", exc |-> e]

Abs(x) == IF x < 0 THEN -x ELSE x

SeqsOfLen(S, n) == [1..n -> S]

SeqsUpTo(S, lo, hi) == UNION { SeqsOfLen(S, n) : n \in lo..hi }

Reverse(s) == [i \in 1..Len(s) |-> s[Len(s) + 1 - i]]

\* a float in sign-magnitude form, magnitude in tenths
Float(x) == [neg |-> x < 0, mag |-> Abs(x)]

Negate(f) == [neg |-> ~f.neg, mag |-> f.mag]

\* == on floats: -0.0 == 0.0
FloatEq(f, g) == f.mag = g.mag /\ (f.mag = 0 \/ f.neg = g.neg)

DigitChar(d) == <<"0", "1", "2", "3", "4", "5", "6", "7", "8", "9">>[d + 1]

RECURSIVE DigitsOf(_)
DigitsOf(n) == IF n < 10 THEN <<DigitChar(n)>>
               ELSE DigitsOf(n \div 10) \o <<DigitChar(n % 10)>>

\* numpy's astype(str) on a float64: shortest repr, "-1.5", "0.0", "-0.0"
FloatStr(f) == (IF f.neg THEN <<"-">> ELSE << >>)
               \o DigitsOf(f.mag \div 10) \o <<".">> \o <<DigitChar(f.mag % 10)>>

DigitVal(c) == CHOOSE d \in 0..9 : DigitChar(d) = c

RECURSIVE IntOfDigits(_)
IntOfDigits(s) == IF s = << >> THEN 0
                  ELSE 10 * IntOfDigits(SubSeq(s, 1, Len(s) - 1)) + DigitVal(s[Len(s)])

\* float(s) for the strings FloatStr writes
StrFloat(s) ==
    LET neg == s[1] = "-"
        body == IF neg THEN Tail(s) ELSE s
        whole == SubSeq(body, 1, Len(body) - 2)
    IN [neg |-> neg, mag |-> 10 * IntOfDigits(whole) + DigitVal(body[Len(body)])]

----------------------------------------------------------------------------
(* The coordinate conversions *)

\* A two-dimensional array of floats is [dtype |-> "float", rows |-> ...];
\* of strings, [dtype |-> "str", rows |-> ...].

jaw_dd2dcm_no_negate(jaw) ==
    IF jaw.rows = << >> THEN Raised("IndexError")
    ELSE IF jaw.dtype = "str" THEN Raised("TypeError")
    ELSE Returned([i \in 1..Len(jaw.rows) |->
                     << FloatStr(jaw.rows[i][2]), FloatStr(jaw.rows[i][1]) >>])

jaw_dd2dcm(jaw) ==
    IF jaw.rows = << >>
    THEN Raised("IndexError")       \* jaw[:, 1] on an array of shape (0,)
    ELSE IF jaw.dtype = "str"
    THEN Raised("TypeError")        \* unary minus on an array of strings
    ELSE LET negated == [i \in 1..Len(jaw.rows) |->
                           << jaw.rows[i][1], Negate(jaw.rows[i][2]) >>]
         IN Returned([i \in 1..Len(negated) |->
                        << FloatStr(negated[i][2]), FloatStr(negated[i][1]) >>])

\* one control point is a sequence of leaf pairs <<bank 0, bank 1>>
mlc_dd2dcm(mlc) ==
    [k \in 1..Len(mlc) |->
        LET control_point == mlc[k]
            L == Len(control_point)
            reversed == Reverse(control_point)
        IN [i \in 1..(2 * L) |->
              IF i <= L THEN FloatStr(Negate(reversed[i][2]))
              ELSE FloatStr(reversed[i - L][1])]]

Movement(d) == IF d > 0 THEN "CW" ELSE IF d < 0 THEN "CC" ELSE "NONE"

angle_dd2dcm_edge_padded(angle, shared) ==
    LET N == Len(angle)
        diff == [i \in 1..N |-> IF i < N THEN angle[i + 1] - angle[i]
                                ELSE IF N > 1 THEN angle[N] - angle[N - 1]
                                ELSE 0]
        normalised == [i \in 1..N |->
                         IF angle[i] < 0 THEN angle[i] + 3600 ELSE angle[i]]
    IN [converted_angle |-> [i \in 1..N |-> FloatStr(Float(normalised[i]))],
        movement |-> [i \in 1..N |-> Movement(diff[i])],
        angle_after |-> IF shared THEN normalised ELSE angle]

\* `shared` says whether np.array(angle, copy=False) is the caller's own
\* buffer (angle is an ndarray) or a fresh one (angle is a tuple or list).
\* angle_after is the caller's sequence once the call is over.
angle_dd2dcm(angle, shared) ==
    LET N == Len(angle)
        diff == [i \in 1..N |-> IF i < N THEN angle[i + 1] - angle[i] ELSE 0]
        normalised == [i \in 1..N |->
                         IF angle[i] < 0 THEN angle[i] + 3600 ELSE angle[i]]
    IN [converted_angle |-> [i \in 1..N |-> FloatStr(Float(normalised[i]))],
        movement |-> [i \in 1..N |-> Movement(diff[i])],
        angle_after |-> IF shared THEN normalised ELSE angle]

\* The returned dict, and the delivery data as the call leaves it.
coordinate_convert_delivery_data(dd) ==
    LET shared == dd.container = "ndarray"
        jaw == jaw_dd2dcm([dtype |-> "float", rows |-> dd.jaw])
        g == angle_dd2dcm(dd.gantry, shared)
        c == angle_dd2dcm(dd.collimator, shared)
    IN IF jaw.kind = "raise"
       THEN [kind |-> "raise", exc |-> jaw.exc, delivery_data_after |-> dd]
       ELSE [kind |-> "return",
             dict |-> [monitor_units |-> dd.monitor_units,
                       mlc |-> mlc_dd2dcm(dd.mlc),
                       jaw |-> jaw.value,
                       gantry_angle |-> g.converted_angle,
                       gantry_movement |-> g.movement,
                       collimator_angle |-> c.converted_angle,
                       collimator_movement |-> c.movement],
             delivery_data_after |-> [dd EXCEPT !.gantry = g.angle_after,
                                                !.collimator = c.angle_after]]

----------------------------------------------------------------------------
(* The gantry tolerance *)

Min(S) == CHOOSE x \in S : \A y \in S : x <= y
Max(S) == CHOOSE x \in S : \A y \in S : x >= y

IntLeq(a, b) == a <= b

\* np.diff
Diff(a) == [i \in 1..(Len(a) - 1) |-> a[i + 1] - a[i]]

Range(f) == { f[i] : i \in DOMAIN f }

ThreeDegrees == 60    \* 3 degrees, in twentieths
SafetyMargin == 2     \* 0.1 degree, in twentieths

gantry_tol_no_margin(angles) ==
    LET diffs == Diff(SortSeq(angles, IntLeq))
    IN IF diffs = << >> THEN Raised("ValueError")
       ELSE Returned(Min({Min(Range(diffs)), ThreeDegrees}))

\* angles in tenths of a degree; the tolerance returned is in twentieths:
\* min_diff / 2 - 0.1 degrees is (min_diff - 2) twentieths
gantry_tol_from_gantry_angles(angles) ==
    LET diffs == Diff(SortSeq(angles, IntLeq))
    IN IF diffs = << >>
       THEN Raised("ValueError")      \* np.min of an empty array
       ELSE LET min_diff == Min(Range(diffs))
            IN Returned(Min({min_diff - SafetyMargin, ThreeDegrees}))

----------------------------------------------------------------------------
(* The RT plan dataset and the pymedphys_dicom / utilities functions       *)
(* to_dicom.py imports.                                                    *)

PyInt(n) == [kind |-> "int", value |-> n]
PyFloat(x) == [kind |-> "float", value |-> x]
NdArray(s) == [kind |-> "ndarray", value |-> s]

\* '{0:.6f}'.format(x), x >= 0 in tenths
Format6f(x) == DigitsOf(x \div 10) \o <<".", DigitChar(x % 10)>>
               \o <<"0", "0", "0", "0", "0">>

\* a control point of the template
ControlPoint(angle, meterset) ==
    [GantryAngle |-> angle, CumulativeMeterset |-> meterset]

Beam(number, angle, meterset) ==
    [BeamNumber |-> number,
     ControlPointSequence |-> << ControlPoint(angle, 0),
                                 ControlPoint(angle, meterset) >>]

FractionGroup(number, refs) ==
    [FractionGroupNumber |-> number, ReferencedBeamSequence |-> refs]

\* BeamMeterset is a decimal string (DS); pydicom reads it as a number
ReferencedBeam(number, meterset) ==
    [ReferencedBeamNumber |-> number, BeamMeterset |-> Format6f(meterset)]

\* the number a decimal string stands for, in tenths
DecimalValue(str) ==
    LET dot == Min({ i \in DOMAIN str : str[i] = "." })
    IN 10 * IntOfDigits(SubSeq(str, 1, dot - 1)) + DigitVal(str[dot + 1])

\* list.index(x): the first position holding x
IndexOf(s, x) == Min({ i \in DOMAIN s : s[i] = x })

FractionGroupNumbers(ds) ==
    [i \in DOMAIN ds.FractionGroupSequence |->
        ds.FractionGroupSequence[i].FractionGroupNumber]

HasFractionGroup(ds, number) ==
    number.kind = "int" /\ number.value \in Range(FractionGroupNumbers(ds))

get_fraction_group_index(ds, number) ==
    IF HasFractionGroup(ds, number)
    THEN Returned(IndexOf(FractionGroupNumbers(ds), number.value))
    ELSE Raised("ValueError")

BeamWithNumber(ds, n) ==
    ds.BeamSequence[Min({ i \in DOMAIN ds.BeamSequence :
                            ds.BeamSequence[i].BeamNumber = n })]

\* the beams the fraction group refers to, and their BeamMeterset values
get_fraction_group_beam_sequence_and_meterset(ds, number) ==
    IF ~HasFractionGroup(ds, number) THEN Raised("ValueError")
    ELSE LET fg == ds.FractionGroupSequence[
                       IndexOf(FractionGroupNumbers(ds), number.value)]
             refs == fg.ReferencedBeamSequence
         IN Returned([beam_sequence |->
                         [i \in DOMAIN refs |->
                            BeamWithNumber(ds, refs[i].ReferencedBeamNumber)],
                      metersets |->
                         [i \in DOMAIN refs |-> DecimalValue(refs[i].BeamMeterset)]])

\* a new dataset holding that fraction group alone, with its beams
convert_to_one_fraction_group(ds, number) ==
    LET r == get_fraction_group_beam_sequence_and_meterset(ds, number)
    IN IF r.kind = "raise" THEN r
       ELSE Returned(
              [ds EXCEPT
                 !.BeamSequence = r.value.beam_sequence,
                 !.FractionGroupSequence =
                    << ds.FractionGroupSequence[
                         IndexOf(FractionGroupNumbers(ds), number.value)] >>])

get_gantry_angles_from_dicom(ds) ==
    [i \in DOMAIN ds.BeamSequence |->
        ds.BeamSequence[i].ControlPointSequence[1].GantryAngle]

\* the samples at the positions of `keep`, in their order
Restrict(seq, keep) ==
    LET F[i \in 0..Len(seq)] ==
          IF i = 0 THEN << >>
          ELSE IF i \in keep THEN Append(F[i - 1], seq[i]) ELSE F[i - 1]
    IN F[Len(seq)]

apply_mask(dd, keep) ==
    [container |-> "ndarray",
     monitor_units |-> Restrict(dd.monitor_units, keep),
     mlc |-> Restrict(dd.mlc, keep),
     jaw |-> Restrict(dd.jaw, keep),
     gantry |-> Restrict(dd.gantry, keep),
     collimator |-> Restrict(dd.collimator, keep)]

\* angles in tenths, tol in twentieths of a degree
gantry_angle_mask(dd, angle, tol) ==
    { i \in DOMAIN dd.gantry : 2 * Abs(dd.gantry[i] - angle) <= tol }

\* one masked delivery data per template angle; fails when an angle has no
\* sample within tolerance
get_all_masked_delivery_data(dd, angles, tol) ==
    IF \E k \in DOMAIN angles : gantry_angle_mask(dd, angles[k], tol) = { }
    THEN Raised("AssertionError")
    ELSE Returned([k \in DOMAIN angles |->
                     apply_mask(dd, gantry_angle_mask(dd, angles[k], tol))])

\* DeliveryDataBase.empty(): no masked data at all
DeliveryDataBase_empty == << >>

\* the last monitor_units value of each masked delivery data
get_metersets_from_delivery_data(all_masked) ==
    [k \in DOMAIN all_masked |->
        all_masked[k].monitor_units[Len(all_masked[k].monitor_units)]]

\* numpy: a - b on one-dimensional arrays, with broadcasting
np_subtract(a, b) ==
    IF Len(a) = Len(b) THEN Returned([i \in DOMAIN a |-> a[i] - b[i]])
    ELSE IF Len(a) = 1 THEN Returned([i \in DOMAIN b |-> a[1] - b[i]])
    ELSE IF Len(b) = 1 THEN Returned([i \in DOMAIN a |-> a[i] - b[1]])
    ELSE Raised("ValueError")

\* numpy: np.max(np.abs(x))
np_max_abs(x) == IF x = << >> THEN Raised("ValueError")
                 ELSE Returned(Max({ Abs(x[i]) : i \in DOMAIN x }))

----------------------------------------------------------------------------
(* determine_fraction_group_number *)

DefaultMetersetTol == 5      \* 0.5 MU

NoFractionGroupFound == [kind |-> "raise", exc |-> "ValueError",
                         message |-> "A fraction group was not able to be found"]
MoreThanOneFractionGroup == [kind |-> "raise", exc |-> "ValueError",
                             message |-> "More than one fraction group was found"]

\* lines 89-161: the template has several fraction groups
match_fraction_groups(dd, dicom_template, gantry_tol, meterset_tol) ==
    LET fraction_group_numbers == FractionGroupNumbers(dicom_template)
        groups == DOMAIN fraction_group_numbers
        dicom_metersets_by_fraction_group ==
            [i \in groups |->
                get_fraction_group_beam_sequence_and_meterset(
                    dicom_template, PyInt(fraction_group_numbers[i])).value.metersets]
        split_by_fraction_group ==
            [i \in groups |->
                convert_to_one_fraction_group(
                    dicom_template, PyInt(fraction_group_numbers[i])).value]
        gantry_angles_by_fraction_group ==
            [i \in groups |-> get_gantry_angles_from_dicom(split_by_fraction_group[i])]
        gantry_tolerances ==
            [i \in groups |->
                IF gantry_tol = None
                THEN gantry_tol_from_gantry_angles(gantry_angles_by_fraction_group[i])
                ELSE Returned(gantry_tol.value)]
        masked_delivery_data_by_fraction_group ==
            [i \in groups |->
                LET masked == get_all_masked_delivery_data(
                                  dd, gantry_angles_by_fraction_group[i],
                                  gantry_tolerances[i].value)
                IN IF masked.kind = "raise"       \* except AssertionError
                   THEN DeliveryDataBase_empty
                   ELSE masked.value]
        deliver_data_metersets_by_fraction_group ==
            [i \in groups |->
                get_metersets_from_delivery_data(
                    masked_delivery_data_by_fraction_group[i])]
        differences ==
            [i \in groups |->
                np_subtract(dicom_metersets_by_fraction_group[i],
                            deliver_data_metersets_by_fraction_group[i])]
        maximum_deviations ==
            [i \in groups |->
                IF differences[i].kind = "raise" THEN differences[i]
                ELSE np_max_abs(differences[i].value)]
        deviations_within_tol ==
            { i \in groups : maximum_deviations[i].value <= meterset_tol }
    IN IF \E i \in groups : gantry_tolerances[i].kind = "raise"
       THEN Raised("ValueError")                       \* line 110
       ELSE IF \E i \in groups : maximum_deviations[i].kind = "raise"
       THEN Raised("ValueError")                       \* lines 139-140
       ELSE IF Cardinality(deviations_within_tol) < 1
       THEN NoFractionGroupFound
       ELSE IF Cardinality(deviations_within_tol) > 1
       THEN MoreThanOneFractionGroup
       ELSE Returned(NdArray(Restrict(fraction_group_numbers,
                                      deviations_within_tol)))

determine_without_shortcut(dd, dicom_template, gantry_tol, meterset_tol) ==
    match_fraction_groups(dd, dicom_template, gantry_tol, meterset_tol)

determine_fraction_group_number(dd, dicom_template, gantry_tol, meterset_tol) ==
    LET fraction_groups == dicom_template.FractionGroupSequence
    IN IF Len(fraction_groups) = 1
       THEN Returned(PyInt(fraction_groups[1].FractionGroupNumber))
       ELSE match_fraction_groups(dd, dicom_template, gantry_tol, meterset_tol)

----------------------------------------------------------------------------
(* delivery_data_to_dicom_single_beam and delivery_data_to_dicom.          *)
(* Datasets are mutable objects: heap[r] is the dataset behind reference r.*)

deepcopy_alias(h, ref) == [heap |-> h, ref |-> ref]

\* copy.deepcopy: a new object with the same content
deepcopy(h, ref) == [heap |-> Append(h, h[ref]), ref |-> Len(h) + 1]

\* a decimal string with its fraction padded with zeros to six places
PadZeros(str) ==
    LET dot == Min({ i \in DOMAIN str : str[i] = "." })
        missing == 6 - (Len(str) - dot)
    IN str \o [i \in 1..missing |-> "0"]

\* the control points of one beam: the first keeps what the template's first
\* control point holds, the others what its last one holds; each carries the
\* converted sample
build_control_points(initial_cp, subsequent_cp, data_converted) ==
    [i \in DOMAIN data_converted.monitor_units |->
        [static |-> IF i = 1 THEN initial_cp ELSE subsequent_cp,
         CumulativeMeterset |-> data_converted.monitor_units[i],
         GantryAngle |-> data_converted.gantry_angle[i],
         GantryRotationDirection |-> data_converted.gantry_movement[i],
         BeamLimitingDeviceAngle |-> data_converted.collimator_angle[i],
         BeamLimitingDeviceRotationDirection |->
             data_converted.collimator_movement[i],
         JawPositions |-> data_converted.jaw[i],
         LeafPositions |-> data_converted.mlc[i]]]

\* in place, on the dataset given
replace_fraction_group(ds, beam_meterset, beam_index, fg_index) ==
    [ds EXCEPT !.FractionGroupSequence[fg_index]
                 .ReferencedBeamSequence[beam_index].BeamMeterset = beam_meterset]

\* in place, on the dataset given
replace_beam_sequence(ds, all_control_points, beam_index) ==
    [ds EXCEPT !.BeamSequence[beam_index].ControlPointSequence = all_control_points]

IsBuilt(cp) == "static" \in DOMAIN cp

\* in place, on the dataset given: the decimal strings written by the
\* conversion get their zeros back
restore_trailing_zeros(ds) ==
    [ds EXCEPT !.BeamSequence =
        [b \in DOMAIN ds.BeamSequence |->
            [ds.BeamSequence[b] EXCEPT !.ControlPointSequence =
                [k \in DOMAIN ds.BeamSequence[b].ControlPointSequence |->
                    LET cp == ds.BeamSequence[b].ControlPointSequence[k]
                    IN IF ~IsBuilt(cp) THEN cp
                       ELSE [cp EXCEPT
                               !.GantryAngle = PadZeros(@),
                               !.BeamLimitingDeviceAngle = PadZeros(@),
                               !.JawPositions =
                                   [j \in DOMAIN @ |-> PadZeros(@[j])],
                               !.LeafPositions =
                                   [j \in DOMAIN @ |-> PadZeros(@[j])]]]]]]

\* beam_index and fg_index (fraction_group_index) count from 1 here, from 0 in Python.
\* Gives the heap after the call, the reference returned, and the delivery
\* data as the conversion leaves it.
delivery_data_to_dicom_single_beam(h, dd, dicom_template, beam_index, fg_index) ==
    LET copied == deepcopy(h, dicom_template)
        created_dicom == copied.ref
        converted == coordinate_convert_delivery_data(dd)
        data_converted == converted.dict
        ds == copied.heap[created_dicom]
        failed(e) == [kind |-> "raise", exc |-> e, heap |-> h,
                      delivery_data_after |-> converted.delivery_data_after]
    IN IF converted.kind = "raise" THEN failed(converted.exc)
       ELSE IF beam_index \notin DOMAIN ds.BeamSequence
       THEN failed("IndexError")
       ELSE LET cp_sequence == ds.BeamSequence[beam_index].ControlPointSequence
                initial_cp == cp_sequence[1]
                subsequent_cp == cp_sequence[Len(cp_sequence)]
                all_control_points ==
                    build_control_points(initial_cp, subsequent_cp, data_converted)
                beam_meterset ==
                    Format6f(data_converted.monitor_units[
                                 Len(data_converted.monitor_units)])
                refs == ds.FractionGroupSequence[fg_index].ReferencedBeamSequence
            IN IF \/ fg_index \notin DOMAIN ds.FractionGroupSequence
                  \/ beam_index \notin DOMAIN refs
               THEN failed("IndexError")
               ELSE [kind |-> "return",
                     value |-> created_dicom,
                     heap |-> [copied.heap EXCEPT ![created_dicom] =
                                 restore_trailing_zeros(
                                   replace_beam_sequence(
                                     replace_fraction_group(
                                       @, beam_meterset, beam_index, fg_index),
                                     all_control_points, beam_index))],
                     delivery_data_after |-> converted.delivery_data_after]

\* the samples that have a change of monitor units before or after them
filter_out_irrelevant_control_points(dd) ==
    LET mu == dd.monitor_units
        relevant == { i \in DOMAIN mu :
                        \/ i = 1 \/ i = Len(mu)
                        \/ mu[i] # mu[i - 1] \/ mu[i + 1] # mu[i] }
    IN apply_mask(dd, relevant)

\* the fields of a fragment that no conversion was meant to replace
Unreplaced(ds) ==
    [PlanLabel |-> ds.PlanLabel,
     Beams |-> [b \in DOMAIN ds.BeamSequence |-> ds.BeamSequence[b].BeamNumber],
     Groups |-> [g \in DOMAIN ds.FractionGroupSequence |->
                   [FractionGroupNumber |->
                        ds.FractionGroupSequence[g].FractionGroupNumber,
                    Referenced |->
                        [k \in DOMAIN ds.FractionGroupSequence[g].ReferencedBeamSequence |->
                           ds.FractionGroupSequence[g].ReferencedBeamSequence[k]
                               .ReferencedBeamNumber]]]]

\* one new dataset: beam k and its meterset from fragment k
merge_beam_sequences(h, dicoms, fg_index) ==
    IF dicoms = << >> THEN Raised("IndexError")
    ELSE IF \E k \in DOMAIN dicoms : Unreplaced(h[dicoms[k]]) # Unreplaced(h[dicoms[1]])
    THEN Raised("AssertionError")
    ELSE LET first == h[dicoms[1]]
         IN Returned(
              [first EXCEPT
                 !.BeamSequence =
                    [b \in DOMAIN @ |->
                       IF b \in DOMAIN dicoms THEN h[dicoms[b]].BeamSequence[b]
                       ELSE @[b]],
                 !.FractionGroupSequence[fg_index].ReferencedBeamSequence =
                    [b \in DOMAIN @ |->
                       IF b \in DOMAIN dicoms
                       THEN h[dicoms[b]].FractionGroupSequence[fg_index]
                                .ReferencedBeamSequence[b]
                       ELSE @[b]]])

----------------------------------------------------------------------------
(* Specification of the coordinate conversions: a delivery data record is  *)
(* converted, and converted again; a converted jaw is fed to jaw_dd2dcm a  *)
(* second time, as the strings it is or read back as numbers.              *)

AngleVals == {-900, 0, 900}
CollimatorVals == {-450, 450}
JawVecs == { << Float(15), Float(0) >>, << Float(-20), Float(35) >>,
             << Float(0), Float(0) >>, << Float(100), Float(-100) >> }
MlcControlPoints == { << << Float(10), Float(20) >>, << Float(-5), Float(0) >> >>,
                      << << Float(0), Float(0) >>, << Float(15), Float(15) >> >> }

DeliveryInputs ==
    UNION { [container : {"ndarray", "tuple"},
             monitor_units : {[i \in 1..n |-> 100 * i]},
             mlc : {[i \in 1..n |-> m] : m \in MlcControlPoints},
             jaw : {[i \in 1..n |-> j] : j \in JawVecs},
             gantry : SeqsOfLen(AngleVals, n),
             collimator : SeqsOfLen(CollimatorVals, n)] : n \in 1..MaxLen }

ConvertIdle == /\ given = None
               /\ delivery_data = None
               /\ conversions = << >>
               /\ jaw_twice = None

TolIdle == gantry_angles = << >> /\ gantry_tol_result = None

ResolveIdle == resolve_input = None /\ resolve_result = None

DicomIdle == /\ heap = << >>
             /\ call = None
             /\ pc = "idle"
             /\ fraction_group_number = None
             /\ single_fraction_group_template = None
             /\ all_masked_delivery_data = << >>
             /\ fraction_group_index = None
             /\ single_beam_dicoms = << >>
             /\ single_beam_calls = << >>
             /\ outcome = None

InitConvert == /\ given \in DeliveryInputs
               /\ delivery_data = given
               /\ conversions = << >>
               /\ jaw_twice = None
               /\ TolIdle /\ ResolveIdle /\ DicomIdle

CoordinateConvert ==
    /\ Len(conversions) < 2
    /\ LET r == coordinate_convert_delivery_data(delivery_data)
       IN /\ r.kind = "return"
          /\ conversions' = Append(conversions, r.dict)
          /\ delivery_data' = r.delivery_data_after
    /\ UNCHANGED << given, jaw_twice, tolVars, resolveVars, dicomVars >>

ParseRows(rows) ==
    [i \in 1..Len(rows) |-> << StrFloat(rows[i][1]), StrFloat(rows[i][2]) >>]

JawAgain ==
    /\ Len(conversions) >= 1
    /\ jaw_twice = None
    /\ \E dtype \in {"float", "str"} :
          LET rows == conversions[1].jaw
              arg == IF dtype = "str" THEN [dtype |-> "str", rows |-> rows]
                     ELSE [dtype |-> "float", rows |-> ParseRows(rows)]
          IN jaw_twice' = jaw_dd2dcm(arg)
    /\ UNCHANGED << given, delivery_data, conversions, tolVars,
                    resolveVars, dicomVars >>

NextConvert == CoordinateConvert \/ JawAgain

SpecConvert == InitConvert /\ [][NextConvert]_vars

StrictlyIncreasing(a) == \A i \in 1..(Len(a) - 1) : a[i] < a[i + 1]
StrictlyDecreasing(a) == \A i \in 1..(Len(a) - 1) : a[i] > a[i + 1]
AllEqual(a) == \A i \in 1..(Len(a) - 1) : a[i] = a[i + 1]

\* the sequences angle_dd2dcm was called on, each with the tags it returned
AnglesAndTags ==
    IF conversions = << >> THEN { }
    ELSE { [angle |-> given.gantry, movement |-> conversions[1].gantry_movement],
           [angle |-> given.collimator,
            movement |-> conversions[1].collimator_movement] }

\* C6 as claimed: jaw_dd2dcm applied twice gives back the original jaw
\* values, same signs, same order.
C6_JawTwiceIsIdentity ==
    (jaw_twice # None /\ jaw_twice.kind = "return") =>
        \A i \in 1..Len(given.jaw) : \A k \in 1..2 :
            FloatEq(StrFloat(jaw_twice.value[i][k]), given.jaw[i][k])

\* C6 amended: jaw_dd2dcm applied to a jaw array and then to its own result
\* read back as numbers returns every sample with both components negated,
\* in the original order: (a, b) -> (-b, a) -> (-a, -b).
C6_JawTwiceNegatesBoth ==
    (jaw_twice # None /\ jaw_twice.kind = "return") =>
        \A i \in 1..Len(given.jaw) : \A k \in 1..2 :
            FloatEq(StrFloat(jaw_twice.value[i][k]), Negate(given.jaw[i][k]))

C6_Witness ==
    /\ jaw_twice # None
    /\ jaw_twice.kind = "return"
    /\ Len(given.jaw) >= 2
    /\ given.jaw[1][1].mag # 0
    /\ given.jaw[1][2].mag # 0

\* C7 as claimed: on a strictly increasing sequence all N direction tags are
\* CW, on a strictly decreasing one all N are CC, on a constant one all N are
\* NONE.
C7_AllTagsFollowDirection ==
    \A r \in AnglesAndTags : \A i \in 1..Len(r.angle) :
        /\ StrictlyIncreasing(r.angle) => r.movement[i] = "CW"
        /\ StrictlyDecreasing(r.angle) => r.movement[i] = "CC"
        /\ AllEqual(r.angle) => r.movement[i] = "NONE"

\* C7 amended: the tag of the last of the N samples is always NONE; on a
\* strictly increasing sequence the first N-1 tags are CW, on a strictly
\* decreasing one the first N-1 are CC, on a constant one all N are NONE.
C7_TagsFollowDirectionButLast ==
    \A r \in AnglesAndTags :
        LET N == Len(r.angle) IN
        /\ Len(r.movement) = N
        /\ r.movement[N] = "NONE"
        /\ \A i \in 1..(N - 1) :
              /\ StrictlyIncreasing(r.angle) => r.movement[i] = "CW"
              /\ StrictlyDecreasing(r.angle) => r.movement[i] = "CC"
        /\ \A i \in 1..N : AllEqual(r.angle) => r.movement[i] = "NONE"

C7_Witness ==
    /\ Len(conversions) >= 1
    /\ Len(given.gantry) = 3
    /\ StrictlyIncreasing(given.gantry)
    /\ conversions[1].gantry_movement = << "CW", "CW", "NONE" >>
    /\ AllEqual(given.collimator)

\* C10 as claimed: the conversion leaves the delivery data as it was given
\* (negative angles still negative), and converting the same delivery data
\* again returns the same angles and direction tags.
C10_ConversionLeavesInputs ==
    /\ delivery_data = given
    /\ Len(conversions) = 2 => conversions[2] = conversions[1]

----------------------------------------------------------------------------
(* Specification of the gantry tolerance: the function is called once on   *)
(* a list of template gantry angles.                                       *)

TemplateAngleVals == {0, 1, 3, 50, 1800}

InitTol == /\ gantry_angles \in SeqsUpTo(TemplateAngleVals, 1, MaxAngles)
           /\ gantry_tol_result = None
           /\ ConvertIdle /\ ResolveIdle /\ DicomIdle

GantryTol ==
    /\ gantry_tol_result = None
    /\ gantry_tol_result' = gantry_tol_from_gantry_angles(gantry_angles)
    /\ UNCHANGED << gantry_angles, convertVars, resolveVars, dicomVars >>

NextTol == GantryTol

SpecTol == InitTol /\ [][NextTol]_vars

\* the smallest gap between two of the angles, in tenths of a degree
MinimalSpacing(angles) ==
    Min({ Abs(angles[p[1]] - angles[p[2]]) :
            p \in { q \in (DOMAIN angles) \X (DOMAIN angles) : q[1] # q[2] } })

DistinctAngles(angles) == Cardinality(Range(angles))

\* C8 as claimed: with at least two distinct angles and minimal spacing d
\* the tolerance is <= min(d/2 - 0.1, 3.0), below d/2, at most 3 degrees,
\* and >= 0.
C8_TolBoundedAndNonNegative ==
    (gantry_tol_result # None /\ DistinctAngles(gantry_angles) >= 2) =>
        /\ gantry_tol_result.kind = "return"
        /\ LET d == MinimalSpacing(gantry_angles)
               tol == gantry_tol_result.value
           IN /\ tol <= Min({d - 2, 60})
              /\ tol < d
              /\ tol <= 60
              /\ tol >= 0

\* C8 amended: with two or more angles and minimal spacing d the tolerance
\* is min(d/2 - 0.1, 3.0): below d/2 and at most 3 degrees, but >= 0 only
\* when d >= 0.2 degrees; for closer angles (two beams at one angle, d = 0,
\* included) it is negative.
C8_TolBoundedNonNegativeFromTwoTenths ==
    (gantry_tol_result # None /\ Len(gantry_angles) >= 2) =>
        /\ gantry_tol_result.kind = "return"
        /\ LET d == MinimalSpacing(gantry_angles)
               tol == gantry_tol_result.value
           IN /\ tol <= Min({d - 2, 60})
              /\ tol < d
              /\ tol <= 60
              /\ (tol >= 0) <=> (d >= 2)

C8_Witness ==
    /\ gantry_tol_result # None
    /\ DistinctAngles(gantry_angles) = 3
    /\ MinimalSpacing(gantry_angles) = 1
    /\ gantry_tol_result.value < 0

----------------------------------------------------------------------------
(* Specification of the fraction group resolver: the function is called    *)
(* once on a delivery stream and a template of one or more fraction groups.*)

\* the beams of the templates: number, gantry angle, planned meterset
PoolBeams == << Beam(1, 0, 1000), Beam(2, 900, 2000),
                Beam(3, 0, 1000), Beam(4, 900, 2005),
                Beam(5, 900, 1000), Beam(6, 1800, 2000),
                Beam(7, 1800, 3000) >>

PoolGroups ==
    { FractionGroup(1, << ReferencedBeam(1, 1000), ReferencedBeam(2, 2000) >>),
      FractionGroup(2, << ReferencedBeam(3, 1000), ReferencedBeam(4, 2005) >>),
      FractionGroup(3, << ReferencedBeam(5, 1000), ReferencedBeam(6, 2000) >>),
      FractionGroup(4, << ReferencedBeam(7, 3000) >>) }

Injective(s) == \A i, j \in DOMAIN s : s[i] = s[j] => i = j

ReferencedNumbers(groups) ==
    UNION { { g.ReferencedBeamSequence[k].ReferencedBeamNumber :
                k \in DOMAIN g.ReferencedBeamSequence } : g \in Range(groups) }

\* a plan with the given fraction groups and the beams they refer to
Template(groups) ==
    [PlanLabel |-> "template",
     FractionGroupSequence |-> groups,
     BeamSequence |-> Restrict(PoolBeams, ReferencedNumbers(groups))]

Templates ==
    { Template(groups) :
        groups \in { g \in SeqsUpTo(PoolGroups, 1, MaxGroups) : Injective(g) } }

StreamGantryVals == {10, 900, 1800}
MuVals == {1000, 2000, 2005}

NonDecreasing(a) == \A i \in 1..(Len(a) - 1) : a[i] <= a[i + 1]

\* a delivery stream of n samples; leaves and jaws stand still
Stream(gantry, mu) ==
    [container |-> "tuple",
     monitor_units |-> mu,
     mlc |-> [i \in DOMAIN mu |-> << << Float(10), Float(20) >> >>],
     jaw |-> [i \in DOMAIN mu |-> << Float(15), Float(-15) >>],
     gantry |-> gantry,
     collimator |-> [i \in DOMAIN mu |-> 0]]

DeliveryStreams ==
    UNION { { Stream(g, mu) :
                g \in SeqsOfLen(StreamGantryVals, n),
                mu \in { m \in SeqsOfLen(MuVals, n) : NonDecreasing(m) } } :
            n \in 1..MaxSamples }

InitResolve ==
    /\ resolve_input \in [delivery_data : DeliveryStreams,
                           dicom_template : Templates,
                           gantry_tol : {None, PyFloat(10)},
                           meterset_tol : {0, DefaultMetersetTol}]
    /\ resolve_result = None
    /\ ConvertIdle /\ TolIdle /\ DicomIdle

Resolve ==
    /\ resolve_result = None
    /\ resolve_result' = determine_fraction_group_number(
                             resolve_input.delivery_data,
                             resolve_input.dicom_template,
                             resolve_input.gantry_tol,
                             resolve_input.meterset_tol)
    /\ UNCHANGED << resolve_input, convertVars, tolVars, dicomVars >>

NextResolve == Resolve

SpecResolve == InitResolve /\ [][NextResolve]_vars

\* What section 4.3 of the specification says of one candidate, worked out
\* from the template and the stream alone.
CandidateAngles(tpl, i) ==
    LET refs == tpl.FractionGroupSequence[i].ReferencedBeamSequence
    IN [k \in DOMAIN refs |->
          BeamWithNumber(tpl, refs[k].ReferencedBeamNumber)
              .ControlPointSequence[1].GantryAngle]

CandidateTol(tpl, i, gantry_tol) ==
    IF gantry_tol # None THEN gantry_tol.value
    ELSE Min({MinimalSpacing(CandidateAngles(tpl, i)) - 2, 60})

\* the candidate can be masked: each of its beams has a sample in its window
CandidateMasked(inp, i) ==
    LET angles == CandidateAngles(inp.dicom_template, i)
    IN /\ inp.gantry_tol = None => Len(angles) >= 2
       /\ \A k \in DOMAIN angles :
             \E j \in DOMAIN inp.delivery_data.gantry :
                2 * Abs(inp.delivery_data.gantry[j] - angles[k])
                    <= CandidateTol(inp.dicom_template, i, inp.gantry_tol)

\* the delivered meterset of beam k of candidate i: the monitor units of the
\* last sample in the beam's window
CandidateDelivered(inp, i, k) ==
    LET angles == CandidateAngles(inp.dicom_template, i)
        tol == CandidateTol(inp.dicom_template, i, inp.gantry_tol)
        last == Max({ j \in DOMAIN inp.delivery_data.gantry :
                        2 * Abs(inp.delivery_data.gantry[j] - angles[k]) <= tol })
    IN inp.delivery_data.monitor_units[last]

CandidateDeviation(inp, i) ==
    LET refs == inp.dicom_template.FractionGroupSequence[i].ReferencedBeamSequence
    IN Max({ Abs(DecimalValue(refs[k].BeamMeterset) - CandidateDelivered(inp, i, k)) :
               k \in DOMAIN refs })

CandidateAccepted(inp, i) ==
    /\ CandidateMasked(inp, i)
    /\ CandidateDeviation(inp, i) <= inp.meterset_tol

Candidates(inp) == DOMAIN inp.dicom_template.FractionGroupSequence

AcceptedCandidates(inp) == { i \in Candidates(inp) : CandidateAccepted(inp, i) }

Resolved == resolve_result # None

SeveralGroups == Len(resolve_input.dicom_template.FractionGroupSequence) >= 2

\* C2 as claimed: with two or more fraction groups, a candidate counts as
\* accepted exactly when its maximum deviation is <= meterset_tol, and when
\* exactly one is accepted its FractionGroupNumber is returned as one plain
\* number, as in the single-group case.  (Stated for the inputs on which
\* every candidate can be masked.)
C2_UniqueMatchReturnsNumber ==
    ( /\ Resolved /\ SeveralGroups
      /\ \A i \in Candidates(resolve_input) : CandidateMasked(resolve_input, i)
      /\ Cardinality(AcceptedCandidates(resolve_input)) = 1 ) =>
        LET i == CHOOSE c \in AcceptedCandidates(resolve_input) : TRUE
        IN resolve_result =
             Returned(PyInt(resolve_input.dicom_template
                              .FractionGroupSequence[i].FractionGroupNumber))

\* C3 as claimed: with two or more fraction groups, no candidate within
\* meterset_tol fails with "no fraction group found", two or more within it
\* fail with "more than one fraction group", and neither returns a number.
C3_NoneOrSeveralFail ==
    (Resolved /\ SeveralGroups) =>
        LET n == Cardinality(AcceptedCandidates(resolve_input))
        IN /\ n = 0 => resolve_result = NoFractionGroupFound
           /\ n >= 2 => resolve_result = MoreThanOneFractionGroup
           /\ NoFractionGroupFound # MoreThanOneFractionGroup

\* C4 as claimed: a candidate whose masking fails counts as not matching,
\* the others are still evaluated, and if exactly one of them is within
\* meterset_tol its number is returned.
C4_MaskingFailureSkipsCandidate ==
    ( /\ Resolved /\ SeveralGroups
      /\ \E i \in Candidates(resolve_input) : ~CandidateMasked(resolve_input, i)
      /\ Cardinality(AcceptedCandidates(resolve_input)) = 1 ) =>
        LET i == CHOOSE c \in AcceptedCandidates(resolve_input) : TRUE
            number == resolve_input.dicom_template
                          .FractionGroupSequence[i].FractionGroupNumber
        IN resolve_result \in { Returned(PyInt(number)),
                                Returned(NdArray(<< number >>)) }

\* C5: with exactly one fraction group in the template the resolver returns
\* that group's FractionGroupNumber, whatever the delivery data and the
\* tolerances are, and never fails.
C5_SingleGroupReturned ==
    (Resolved /\ ~SeveralGroups) =>
        resolve_result =
            Returned(PyInt(resolve_input.dicom_template
                             .FractionGroupSequence[1].FractionGroupNumber))

C5_Witness ==
    /\ Resolved
    /\ ~SeveralGroups
    /\ resolve_input.gantry_tol = None
    /\ AcceptedCandidates(resolve_input) = { }
    /\ resolve_result = Returned(PyInt(4))

----------------------------------------------------------------------------
(* Specification of delivery_data_to_dicom_single_beam: a caller holding a *)
(* template of one fraction group converts beams one call at a time, in    *)
(* any order, with delivery data that converts or does not.                *)

SingleBeamData ==
    { [container |-> "tuple", monitor_units |-> << >>, mlc |-> << >>,
       jaw |-> << >>, gantry |-> << >>, collimator |-> << >>],
      [Stream(<< -900, 0 >>, << 1000, 2005 >>) EXCEPT !.container = "ndarray"],
      Stream(<< 900 >>, << 2000 >>) }

InitSingleBeam ==
    /\ \E g \in PoolGroups : heap = << Template(<< g >>) >>
    /\ single_fraction_group_template = 1
    /\ single_beam_calls = << >>
    /\ call = None
    /\ pc = "idle"
    /\ fraction_group_number = None
    /\ all_masked_delivery_data = << >>
    /\ fraction_group_index = None
    /\ single_beam_dicoms = << >>
    /\ outcome = None
    /\ ConvertIdle /\ TolIdle /\ ResolveIdle

SingleBeam ==
    /\ Len(single_beam_calls) < MaxCalls
    /\ \E dd \in SingleBeamData :
       \E beam_index \in 1..(Len(heap[single_fraction_group_template].BeamSequence) + 1) :
          LET r == delivery_data_to_dicom_single_beam(
                       heap, dd, single_fraction_group_template, beam_index, 1)
          IN /\ heap' = r.heap
             /\ single_beam_calls' =
                    Append(single_beam_calls,
                           [delivery_data |-> dd,
                            beam_index |-> beam_index,
                            result |-> IF r.kind = "return" THEN Returned(r.value)
                                       ELSE Raised(r.exc)])
    /\ UNCHANGED << call, pc, fraction_group_number,
                    single_fraction_group_template, all_masked_delivery_data,
                    fraction_group_index, single_beam_dicoms, outcome,
                    convertVars, tolVars, resolveVars >>

NextSingleBeam == SingleBeam

SpecSingleBeam == InitSingleBeam /\ [][NextSingleBeam]_vars

Succeeded(c) == c.result.kind = "return"

\* the fragment of a successful call holds the new control points and the
\* new meterset at the call's beam, and the template's content elsewhere
FragmentOfTemplate(c) ==
    LET t == heap[single_fraction_group_template]
        f == heap[c.result.value]
        b == c.beam_index
    IN /\ c.result.value # single_fraction_group_template
       /\ f.PlanLabel = t.PlanLabel
       /\ DOMAIN f.BeamSequence = DOMAIN t.BeamSequence
       /\ \A k \in DOMAIN f.BeamSequence :
             /\ k # b => f.BeamSequence[k] = t.BeamSequence[k]
             /\ k # b => f.FractionGroupSequence[1].ReferencedBeamSequence[k]
                          = t.FractionGroupSequence[1].ReferencedBeamSequence[k]
       /\ \A k \in DOMAIN f.BeamSequence[b].ControlPointSequence :
             IsBuilt(f.BeamSequence[b].ControlPointSequence[k])
       /\ f.FractionGroupSequence[1].ReferencedBeamSequence[b].BeamMeterset
             = Format6f(c.delivery_data.monitor_units[
                            Len(c.delivery_data.monitor_units)])

\* C9: no call of delivery_data_to_dicom_single_beam, successful or failed,
\* changes the template it is given; the control points and the meterset it
\* replaces are in the dataset it returns alone, so every fragment is the
\* unmodified template but for its own beam, in whatever order the beams are
\* converted.
C9_TemplateNeverModified ==
    [][ /\ heap'[single_fraction_group_template] = heap[single_fraction_group_template]
        /\ \A k \in DOMAIN single_beam_calls' :
              Succeeded(single_beam_calls'[k]) => FragmentOfTemplate(single_beam_calls[k])'
      ]_vars

C9_Witness ==
    /\ Len(single_beam_calls) = 3
    /\ single_beam_calls[1].beam_index = 2 /\ Succeeded(single_beam_calls[1])
    /\ ~Succeeded(single_beam_calls[2])
    /\ single_beam_calls[3].beam_index = 1 /\ Succeeded(single_beam_calls[3])
    /\ heap[single_beam_calls[1].result.value]
         # heap[single_beam_calls[3].result.value]
    /\ heap[single_fraction_group_template] \in Templates

----------------------------------------------------------------------------
(* Specification of delivery_data_to_dicom: one call, followed statement   *)
(* by statement.                                                           *)

RequestedNumbers == {None} \cup { PyInt(g.FractionGroupNumber) : g \in PoolGroups }

InitDicom ==
    /\ \E dd \in DeliveryStreams, tpl \in Templates, number \in RequestedNumbers :
          /\ given = dd
          /\ delivery_data = dd
          /\ heap = << tpl >>
          /\ call = [delivery_data |-> dd, dicom_template |-> 1,
                     fraction_group_number |-> number]
          /\ fraction_group_number = number
    /\ pc = "line 55"
    /\ single_fraction_group_template = None
    /\ all_masked_delivery_data = << >>
    /\ fraction_group_index = None
    /\ single_beam_dicoms = << >>
    /\ single_beam_calls = << >>
    /\ outcome = None
    /\ conversions = << >>
    /\ jaw_twice = None
    /\ TolIdle /\ ResolveIdle

Fail(r) == /\ outcome' = Raised(r.exc)
           /\ pc' = "done"

\* lines 55-56: if fraction_group_number is None: pass
CheckNumber ==
    /\ pc = "line 55"
    /\ pc' = "line 58"
    /\ UNCHANGED << heap, call, fraction_group_number,
                    single_fraction_group_template, all_masked_delivery_data,
                    fraction_group_index, single_beam_dicoms,
                    single_beam_calls, outcome,
                    convertVars, tolVars, resolveVars >>

\* lines 58-59
ReduceToOneFractionGroup ==
    /\ pc = "line 58"
    /\ LET r == convert_to_one_fraction_group(heap[call.dicom_template],
                                              fraction_group_number)
       IN IF r.kind = "raise"
          THEN /\ Fail(r)
               /\ UNCHANGED << heap, single_fraction_group_template >>
          ELSE /\ heap' = Append(heap, r.value)
               /\ single_fraction_group_template' = Len(heap) + 1
               /\ pc' = "line 61"
               /\ UNCHANGED outcome
    /\ UNCHANGED << call, fraction_group_number, all_masked_delivery_data,
                    fraction_group_index, single_beam_dicoms,
                    single_beam_calls, convertVars, tolVars, resolveVars >>

\* lines 61-71
MaskAndIndex ==
    /\ pc = "line 61"
    /\ LET filtered == filter_out_irrelevant_control_points(delivery_data)
           template_gantry_angles ==
               get_gantry_angles_from_dicom(heap[single_fraction_group_template])
           gantry_tol == gantry_tol_from_gantry_angles(template_gantry_angles)
           masked == get_all_masked_delivery_data(
                         filtered, template_gantry_angles, gantry_tol.value)
           index == get_fraction_group_index(
                        heap[single_fraction_group_template], fraction_group_number)
       IN /\ delivery_data' = filtered
          /\ IF gantry_tol.kind = "raise"
             THEN Fail(gantry_tol)
                  /\ UNCHANGED << all_masked_delivery_data, fraction_group_index >>
             ELSE IF masked.kind = "raise"
             THEN Fail(masked)
                  /\ UNCHANGED << all_masked_delivery_data, fraction_group_index >>
             ELSE IF index.kind = "raise"
             THEN Fail(index)
                  /\ all_masked_delivery_data' = masked.value
                  /\ UNCHANGED fraction_group_index
             ELSE /\ all_masked_delivery_data' = masked.value
                  /\ fraction_group_index' = PyInt(index.value)
                  /\ pc' = "line 74"
                  /\ UNCHANGED outcome
    /\ UNCHANGED << heap, call, fraction_group_number,
                    single_fraction_group_template, single_beam_dicoms,
                    single_beam_calls, given, conversions, jaw_twice,
                    tolVars, resolveVars >>

\* lines 74-77, one turn of the loop
ConvertBeam ==
    /\ pc = "line 74"
    /\ Len(single_beam_dicoms) < Len(all_masked_delivery_data)
    /\ LET beam_index == Len(single_beam_dicoms) + 1
           r == delivery_data_to_dicom_single_beam(
                    heap, all_masked_delivery_data[beam_index],
                    single_fraction_group_template, beam_index,
                    fraction_group_index.value)
       IN /\ heap' = r.heap
          /\ all_masked_delivery_data' =
                 [all_masked_delivery_data EXCEPT ![beam_index] = r.delivery_data_after]
          /\ IF r.kind = "raise"
             THEN Fail(r) /\ UNCHANGED single_beam_dicoms
             ELSE /\ single_beam_dicoms' = Append(single_beam_dicoms, r.value)
                  /\ UNCHANGED << pc, outcome >>
    /\ UNCHANGED << call, fraction_group_number, single_fraction_group_template,
                    fraction_group_index, single_beam_calls,
                    convertVars, tolVars, resolveVars >>

\* line 79
Merge ==
    /\ pc = "line 74"
    /\ Len(single_beam_dicoms) = Len(all_masked_delivery_data)
    /\ LET r == merge_beam_sequences(heap, single_beam_dicoms,
                                     fraction_group_index.value)
       IN IF r.kind = "raise"
          THEN Fail(r) /\ UNCHANGED heap
          ELSE /\ heap' = Append(heap, r.value)
               /\ outcome' = Returned(Len(heap) + 1)
               /\ pc' = "done"
    /\ UNCHANGED << call, fraction_group_number, single_fraction_group_template,
                    all_masked_delivery_data, fraction_group_index,
                    single_beam_dicoms, single_beam_calls,
                    convertVars, tolVars, resolveVars >>

NextDicom == \/ CheckNumber
             \/ ReduceToOneFractionGroup
             \/ MaskAndIndex
             \/ ConvertBeam
             \/ Merge

SpecDicom == InitDicom /\ [][NextDicom]_vars

\* what the FractionGroupResolver makes of the call's delivery data and
\* template, with its default tolerances
ResolverOnCall ==
    determine_fraction_group_number(call.delivery_data, heap[call.dicom_template],
                                    None, DefaultMetersetTol)

\* the fraction group number a resolver result stands for
NumberOf(v) == IF v.kind = "ndarray" THEN PyInt(v.value[1]) ELSE v

\* C1 as claimed: called without a fraction group number, the function has
\* the resolver determine it and every step from the reduction of the
\* template on works with the number resolved; called with a number, every
\* step works with that number.
C1_ResolvedNumberUsed ==
    pc # "line 55" =>
        IF call.fraction_group_number = None
        THEN ResolverOnCall.kind = "return"
                => fraction_group_number = NumberOf(ResolverOnCall.value)
        ELSE fraction_group_number = call.fraction_group_number

====
